---- MODULE Spec2Model ----
(***************************************************************************)
(* Model of the WindSurfDecrypt ingestion pipeline                         *)
(* (src/windsurf_monitor.py): WindsurfDecryptor.process_message with its   *)
(* persistence and forwarding steps, the watchdog handler                  *)
(* MessageWatcher.on_created, the dashboard's reads of the history, the    *)
(* interrupt and shutdown of `monitor`, and the single-message `decrypt`   *)
(* command on a file's bytes or on a text.                                 *)
(*                                                                         *)
(* Bytes and characters are their code points (integers); byte strings     *)
(* and text are sequences of them.                                         *)
(***************************************************************************)
EXTENDS Integers, Sequences, FiniteSets, TLC

(***************************************************************************)
(* Bounds of the model.                                                    *)
(***************************************************************************)
\* largest monitoring.max_history a configuration is drawn with
MaxHistory == 2
\* file-creation events the environment raises during one monitor run
MaxEvents == 2
\* last instant of the clock
MaxClock == 1
\* clock instants per second: datetime.now() is at least as fine as the %S
\* field of the persisted file's name
TicksPerSecond == 1

(***************************************************************************)
(* Program constants.                                                      *)
(***************************************************************************)
\* bytes per line of the hex dump: range(0, len(data), 16)
ChunkSize == 16
\* rows of the dashboard's table: messages[-10:]
TableRows == 10

(***************************************************************************)
(* Text literals of the source, as code points.                            *)
(***************************************************************************)
WINDSURF == <<119, 105, 110, 100, 115, 117, 114, 102>>
DOLLAR == <<36>>
QUOTE == <<34>>
EN_MARK == <<101, 110, 58>>
SPACE == <<32>>
R_DOLLAR == <<82, 36>>
PROGRAM_FILES == <<80, 114, 111, 103, 114, 97, 109, 32, 70, 105, 108, 101, 115>>
C_PROGRAM_FILES == <<67, 58, 92>> \o PROGRAM_FILES
NUL == <<0>>
RU == <<114, 117>>
MSG_SUFFIX == <<46, 109, 115, 103>>
\* '\\x': a backslash and an x
BACKSLASH_X == <<92, 120>>
\* the quote characters process_message strips: "'" and '"'
APOSTROPHE == 39
DOUBLE_QUOTE == 34

(***************************************************************************)
(* Python string primitives.                                               *)
(***************************************************************************)
\* s[i:] with a 1-based i
Drop(s, i) == SubSeq(s, i, Len(s))

\* str.find: the 1-based index of the leftmost occurrence of pat in s, 0 if none
Find(s, pat) ==
    LET hits == {i \in 1..(Len(s) - Len(pat) + 1) : SubSeq(s, i, i + Len(pat) - 1) = pat}
    IN IF hits = {} THEN 0 ELSE CHOOSE i \in hits : \A j \in hits : i <= j

\* pat in s
Contains(s, pat) == Find(s, pat) # 0

\* s.split(sep)[0]
Split0(s, sep) == IF Contains(s, sep) THEN SubSeq(s, 1, Find(s, sep) - 1) ELSE s

\* s.split(sep)[1], for a sep that occurs in s
Split1(s, sep) == Split0(Drop(s, Find(s, sep) + Len(sep)), sep)

\* str.endswith
EndsWith(s, suffix) ==
    /\ Len(s) >= Len(suffix)
    /\ SubSeq(s, Len(s) - Len(suffix) + 1, Len(s)) = suffix

\* str.lower on ASCII text
Lower(s) == [i \in DOMAIN s |-> IF s[i] \in 65..90 THEN s[i] + 32 ELSE s[i]]

\* the ASCII characters str.isspace accepts
Whitespace == (9..13) \cup (28..32)

\* str.strip()
Strip(s) ==
    LET keep == {i \in DOMAIN s : s[i] \notin Whitespace}
    IN IF keep = {} THEN <<>>
       ELSE SubSeq(s, CHOOSE i \in keep : \A j \in keep : i <= j,
                      CHOOSE i \in keep : \A j \in keep : i >= j)

\* s.strip(chars)
StripChars(s, chars) ==
    LET keep == {i \in DOMAIN s : s[i] \notin chars}
    IN IF keep = {} THEN <<>>
       ELSE SubSeq(s, CHOOSE i \in keep : \A j \in keep : i <= j,
                      CHOOSE i \in keep : \A j \in keep : i >= j)

\* s.split(sep): every part, empty ones included
RECURSIVE Split(_, _)
Split(s, sep) ==
    IF Contains(s, sep)
    THEN <<SubSeq(s, 1, Find(s, sep) - 1)>> \o Split(Drop(s, Find(s, sep) + Len(sep)), sep)
    ELSE <<s>>

\* the outcome of an expression that may raise: ok and the bytes it yields, or
\* not ok
Value(bytes) == [ok |-> TRUE, bytes |-> bytes]
Raised == [ok |-> FALSE, bytes |-> <<>>]

\* s.encode('latin1'): one byte per character, UnicodeEncodeError for a
\* character above U+00FF
EncodeLatin1(s) == IF \A i \in DOMAIN s : s[i] <= 255 THEN Value(s) ELSE Raised

\* the value of a hexadecimal digit, -1 for any other character
HexVal(c) ==
    IF c \in 48..57 THEN c - 48
    ELSE IF c \in 97..102 THEN c - 87
    ELSE IF c \in 65..70 THEN c - 55
    ELSE -1

\* bytes.fromhex of a two-character string: ASCII whitespace is skipped, the
\* rest must be pairs of hexadecimal digits, else ValueError
FromHex(two) ==
    LET digits == SelectSeq(two, LAMBDA c : c \notin {9, 10, 11, 12, 13, 32})
    IN IF digits = <<>> THEN Value(<<>>)
       ELSE IF Len(digits) = 2 /\ HexVal(digits[1]) >= 0 /\ HexVal(digits[2]) >= 0
       THEN Value(<<16 * HexVal(digits[1]) + HexVal(digits[2])>>)
       ELSE Raised

\* bytes.decode('utf-8', errors='ignore') on byte strings whose bytes are ASCII
\* or bytes no UTF-8 sequence contains (0xC0, 0xC1, 0xF5..0xFF): the latter are
\* dropped, the former decode to themselves
RECURSIVE Decode(_)
Decode(data) ==
    IF data = <<>> THEN <<>>
    ELSE IF Head(data) < 128 THEN <<Head(data)>> \o Decode(Tail(data))
    ELSE Decode(Tail(data))

\* a dict with no key
EmptyDict == [k \in {} |-> <<>>]

(***************************************************************************)
(* WindsurfDecryptor._hex_dump: one line per 16-byte chunk.                *)
(***************************************************************************)
\* chr(b) if 32 <= b <= 126 else '.'
AsciiVal(b) == IF 32 <= b /\ b <= 126 THEN b ELSE 46

_hex_dump(data, offset) ==
    LET starts == {i \in 0..(Len(data) - 1) : i % ChunkSize = 0}
        nlines == Cardinality(starts)
        chunk(k) == SubSeq(data, (k - 1) * ChunkSize + 1,
                           IF k * ChunkSize < Len(data) THEN k * ChunkSize ELSE Len(data))
    IN [k \in 1..nlines |->
           [offset |-> (k - 1) * ChunkSize + offset,
            hex_vals |-> chunk(k),
            ascii_vals |-> [j \in DOMAIN chunk(k) |-> AsciiVal(chunk(k)[j])]]]

(***************************************************************************)
(* WindsurfDecryptor._parse_message of windsurf_monitor.py: the extraction *)
(* rules, each adding its keys to `parts`.                                 *)
(***************************************************************************)
\* client_version and session_id
ClientRule(message) ==
    IF Contains(Lower(message), WINDSURF)
    THEN ("client_version" :> Strip(Split0(message, DOLLAR)))
         @@ (IF Contains(message, DOLLAR) /\ Contains(Split1(message, DOLLAR), QUOTE)
             THEN "session_id" :> Strip(Split0(Split1(message, DOLLAR), QUOTE))
             ELSE EmptyDict)
    ELSE EmptyDict

\* version and language; the else branch sets language when 'en:' is absent
LanguageRule(message) ==
    IF Contains(message, EN_MARK)
    THEN IF Contains(Split1(message, EN_MARK), SPACE)
         THEN ("version" :> Strip(Split0(Split1(message, EN_MARK), SPACE)))
              @@ ("language" :> RU)
         ELSE EmptyDict
    ELSE "language" :> RU

\* machine_id: the test lowercases machine_part, the split does not
MachineRule(message) ==
    IF Contains(message, R_DOLLAR) /\ Contains(Lower(Split1(message, R_DOLLAR)), WINDSURF)
    THEN "machine_id" :> Strip(Split0(Split1(message, R_DOLLAR), WINDSURF))
    ELSE EmptyDict

\* installation_path
PathRule(message) ==
    IF Contains(message, PROGRAM_FILES)
    THEN "installation_path" :>
             (C_PROGRAM_FILES \o Split0(Split1(message, PROGRAM_FILES), NUL))
    ELSE EmptyDict

_parse_message(data) ==
    LET message == Decode(data)
    IN ClientRule(message) @@ LanguageRule(message)
       @@ MachineRule(message) @@ PathRule(message)

(***************************************************************************)
(* Message payloads the environment supplies (file contents).              *)
(***************************************************************************)
\* b''
EmptyPayload == <<>>
\* b'\xc1\x0awindsurf-2.0$s9"en:5.5 x': magic header, 26 bytes, two dump lines
FullPayload ==
    <<193, 10, 119, 105, 110, 100, 115, 117, 114, 102, 45, 50, 46, 48, 36, 115, 57,
      34, 101, 110, 58, 53, 46, 53, 32, 120>>
\* b'R$m42 windsurf'
MachinePayload == <<82, 36, 109, 52, 50, 32, 119, 105, 110, 100, 115, 117, 114, 102>>

\* b'R$m42Windsurf': the marker with a capital letter
CapitalPayload == <<82, 36, 109, 52, 50, 87, 105, 110, 100, 115, 117, 114, 102>>

Payloads == {EmptyPayload, FullPayload, MachinePayload, CapitalPayload}

(***************************************************************************)
(* Lines 244-265 of process_message: a str input is turned into bytes.     *)
(***************************************************************************)
\* lines 251-259: the bytes one part of data.split('\\x') contributes
PartBytes(part) ==
    IF Len(part) >= 2
    THEN LET head == FromHex(SubSeq(part, 1, 2))
             rest == EncodeLatin1(Drop(part, 3))
             whole == EncodeLatin1(part)
         IN IF head.ok /\ (Len(part) > 2 => rest.ok)
            THEN Value(head.bytes \o (IF Len(part) > 2 THEN rest.bytes ELSE <<>>))
            ELSE IF whole.ok
            THEN Value((IF head.ok THEN head.bytes ELSE <<>>) \o whole.bytes)
            ELSE Raised
    ELSE EncodeLatin1(part)

\* lines 249-260: b''.join of the parts' bytes; an encode that raises ends the loop
RECURSIVE JoinedParts(_)
JoinedParts(hex_parts) ==
    IF hex_parts = <<>> THEN Value(<<>>)
    ELSE LET first == PartBytes(Head(hex_parts))
             others == JoinedParts(Tail(hex_parts))
         IN IF first.ok /\ others.ok THEN Value(first.bytes \o others.bytes) ELSE Raised

\* lines 245-265: the stripped text's escapes are decoded, or the text is encoded
\* as Latin-1; when that raises, the handler at line 265 encodes the stripped
\* text as Latin-1 again, and an exception there leaves the statement
Normalized(data) ==
    LET stripped == Strip(StripChars(StripChars(Strip(data), {APOSTROPHE}), {DOUBLE_QUOTE}))
        hex_parts == SelectSeq(Split(stripped, BACKSLASH_X), LAMBDA p : p # <<>>)
        attempt == IF Contains(stripped, BACKSLASH_X)
                   THEN JoinedParts(hex_parts)
                   ELSE EncodeLatin1(stripped)
    IN IF attempt.ok THEN attempt ELSE EncodeLatin1(stripped)

(***************************************************************************)
(* Texts given to the `decrypt` command on its command line.               *)
(***************************************************************************)
\* " 'R$m42 windsurf' ": quoted and padded
QuotedText == <<32, 39>> \o MachinePayload \o <<39, 32>>
\* '\\xc1\\x0awindsurf-2.0$s9"en:5.5 x': FullPayload with its first two bytes escaped
EscapedText == <<92, 120, 99, 49, 92, 120, 48, 97>> \o Drop(FullPayload, 3)
\* the euro sign, U+20AC: a character Latin-1 does not have
EuroText == <<8364>>
\* '\\x41' followed by the euro sign
EscapedEuroText == <<92, 120, 52, 49, 8364>>

TextInputs == {QuotedText, EscapedText, EuroText, EscapedEuroText}

\* lines 244-265 for each text, tabulated
NormalizedOf == [text \in TextInputs |-> Normalized(text)]

(***************************************************************************)
(* State.                                                                  *)
(***************************************************************************)
VARIABLES
    mode,       \* the command running: "monitor", "decrypt", or "send_message"
                \* (APIClient.send_message called on its own)
    config,     \* Config.config: api.enabled, monitoring.save_to_disk, .max_history
    input_data, \* what `decrypt` passed to process_message: the bytes of a
                \* file or the text of its argument ("none" before the call)
    clock,      \* the instant datetime.now() last returned
    queue,      \* the observer's event queue: creation events not yet dispatched
    created,    \* number of creation events raised so far
    arrived,    \* contents of the '.msg' files created so far, in creation order
    pc,         \* position of the thread that runs process_message
    caller,     \* who called send_message: "process_message", "decrypt", "direct"
    cur,        \* the WindsurfMessage being processed (index into msgs), 0 if none
    msgs,       \* every WindsurfMessage built and parsed (line 269 reached), in order
    messages,   \* WindsurfDecryptor.messages: the history, as indices into msgs
    arrivals,   \* every index ever appended to messages, in order
    rets,       \* return value of each finished process_message call (0 is None)
    requests,   \* per message, the session.post requests issued for it, each
                \* "pending", "ok" or "failed"
    results,    \* per message, the values send_message returned for it, in order
    files,      \* output directory: file name -> serialized message
    writes,     \* per message, how the write of its file went: "none" (not
                \* attempted), "ok" or "failed"
    log,        \* logging.error records, as <<kind, message index>>
    rpc,        \* position of the main thread of `monitor`: in the render loop
                \* inside update_display ("table", "details"), or after a
                \* KeyboardInterrupt at line 470 ("stop"), at line 471 ("join"),
                \* or past it ("exit")
    table,      \* what _generate_message_table last read: messages[-10:]
    details     \* what update_display last read as messages[-1], 0 if nothing

vars == <<mode, config, input_data, clock, queue, created, arrived, pc, caller, cur, msgs, messages,
          arrivals, rets, requests, results, files, writes, log, rpc, table,
          details>>

\* the variables of the forwarding and ingestion thread
ingest ==
    <<pc, caller, cur, msgs, messages, arrivals, rets, requests, results, files, writes,
      log>>
\* the variables of the dashboard
render == <<rpc, table, details>>
\* the variables of the environment
env == <<clock, queue, created, arrived>>

(***************************************************************************)
(* Configurations: api.enabled, monitoring.save_to_disk and                *)
(* monitoring.max_history (an integer >= 1).                               *)
(***************************************************************************)
Configs ==
    [enabled : BOOLEAN, save_to_disk : BOOLEAN, max_history : 1..MaxHistory]

(***************************************************************************)
(* File-creation events of the watched directory.                          *)
(***************************************************************************)
\* 'a.msg', 'a.txt', 'd.msg'
MsgFileName == <<97>> \o MSG_SUFFIX
TxtFileName == <<97, 46, 116, 120, 116>>
DirName == <<100>> \o MSG_SUFFIX

\* contents of the '.msg' files that appear
WatchedPayloads == {EmptyPayload, FullPayload}

Events ==
    {[is_directory |-> FALSE, src_path |-> MsgFileName, data |-> p] : p \in WatchedPayloads}
    \cup {[is_directory |-> FALSE, src_path |-> TxtFileName, data |-> FullPayload],
          [is_directory |-> TRUE, src_path |-> DirName, data |-> EmptyPayload]}

(***************************************************************************)
(* WindsurfMessage.                                                        *)
(***************************************************************************)
\* lines 268 and 269 of process_message for each payload, tabulated
HexDumpOf == [data \in Payloads |-> _hex_dump(data, 0)]
ParsedDataOf == [data \in Payloads |-> _parse_message(data)]

\* WindsurfMessage.__init__ followed by lines 267-269 of process_message
WindsurfMessage(data, now) ==
    [raw_data |-> data,
     timestamp |-> now,
     parsed_data |-> ParsedDataOf[data],
     hex_dump |-> HexDumpOf[data],
     api_sent |-> FALSE]

\* WindsurfMessage.to_dict: the timestamp at full resolution, no api_sent
to_dict(m) ==
    [timestamp |-> m.timestamp,
     parsed_data |-> m.parsed_data,
     hex_dump |-> m.hex_dump,
     raw_data |-> m.raw_data]

\* message.timestamp.strftime("%Y%m%d_%H%M%S"): the instant cut to its second
FileName(timestamp) == timestamp \div TicksPerSecond

\* process_message's argument: bytes (a file's contents) or str
Bytes(data) == [kind |-> "bytes", value |-> data]
Text(data) == [kind |-> "str", value |-> data]
NoInput == [kind |-> "none", value |-> <<>>]

\* lst[-n:]
LastN(lst, n) == IF Len(lst) <= n THEN lst ELSE SubSeq(lst, Len(lst) - n + 1, Len(lst))

(***************************************************************************)
(* Initial states.                                                         *)
(***************************************************************************)
Init ==
    /\ config \in Configs
    /\ input_data = NoInput
    /\ clock = 0
    /\ queue = <<>>
    /\ created = 0
    /\ arrived = <<>>
    /\ messages = <<>>
    /\ arrivals = <<>>
    /\ rets = <<>>
    /\ files = EmptyDict
    /\ writes = <<>>
    /\ log = {}
    /\ rpc = "table"
    /\ table = <<>>
    /\ details = 0
    /\ mode \in {"monitor", "decrypt"}
    /\ pc = "idle"
    /\ caller = "none"
    /\ cur = 0
    /\ msgs = <<>>
    /\ requests = <<>>
    /\ results = <<>>

(***************************************************************************)
(* The observer of `monitor`: started at line 462, stopped at line 470.    *)
(***************************************************************************)
\* the with-block of the render loop (lines 465-468) has been left
RenderLoopEnded == rpc \in {"stop", "join", "exit"}

\* observer.stop() has not been called: events are queued and dispatched
ObserverRunning == rpc \notin {"join", "exit"}

(***************************************************************************)
(* The environment: files and directories appear in the watched directory. *)
(***************************************************************************)
\* a file or directory is created; the observer queues its event
CreateFile(event) ==
    /\ mode = "monitor"
    /\ ObserverRunning
    /\ created < MaxEvents
    /\ queue' = Append(queue, event)
    /\ created' = created + 1
    /\ arrived' = IF ~event.is_directory /\ EndsWith(event.src_path, MSG_SUFFIX)
                  THEN Append(arrived, event.data)
                  ELSE arrived
    /\ UNCHANGED <<mode, config, input_data, clock, ingest, render>>

(***************************************************************************)
(* WindsurfDecryptor.process_message, step by step.                        *)
(***************************************************************************)
\* process_message returns val to its caller: on_created discards it and the
\* observer thread waits for the next event; decrypt goes on to line 431
ReturnTo(val) ==
    /\ rets' = Append(rets, val)
    /\ pc' = IF mode = "monitor" THEN "idle" ELSE "d_resend"

\* the instants datetime.now() can return next: time does not run backwards
Now == clock..MaxClock

\* lines 241-269 on a bytes input: the message is built at instant now, dumped
\* and parsed
ProcessBegin(data, now) ==
    /\ clock' = now
    /\ msgs' = Append(msgs, WindsurfMessage(data, now))
    /\ cur' = Len(msgs) + 1
    /\ requests' = Append(requests, <<>>)
    /\ writes' = Append(writes, "none")
    /\ results' = Append(results, <<>>)
    /\ pc' = "save"

\* lines 241-265 and 286-288 on a str input whose conversion raises: the message
\* built at instant now is dropped, the error is logged and None is returned
ProcessAborted(now) ==
    /\ clock' = now
    /\ log' = log \cup {<<"process_error", 0>>}
    /\ ReturnTo(0)
    /\ UNCHANGED <<cur, msgs, requests, results, writes>>

\* SaveFailed, had _save_message no try: the error reaches process_message's own
\* except branch, which logs it and returns None
SaveFailedRaises ==
    /\ log' = log \cup {<<"process_error", cur>>}
    /\ ReturnTo(0)
    /\ UNCHANGED files

\* _save_message's except branch: the error is logged and swallowed
SaveFailed ==
    /\ log' = log \cup {<<"save_error", cur>>}
    /\ pc' = "send"
    /\ UNCHANGED <<files, rets>>

\* _save_message's with-block succeeded: the file named by the second holds the
\* message (open(filename, 'w') replaces what a file of that name held)
SaveDone ==
    /\ files' = (FileName(msgs[cur].timestamp) :> to_dict(msgs[cur])) @@ files
    /\ pc' = "send"
    /\ UNCHANGED <<log, rets>>

\* lines 272-273 and _save_message; the write succeeds or fails
_save_message ==
    /\ pc = "save"
    /\ IF config.save_to_disk
       THEN \/ writes' = [writes EXCEPT ![cur] = "ok"] /\ SaveDone
            \/ writes' = [writes EXCEPT ![cur] = "failed"] /\ SaveFailed
       ELSE pc' = "send" /\ UNCHANGED <<files, writes, log, rets>>
    /\ UNCHANGED <<mode, config, input_data, env, render, caller, cur, msgs, messages, arrivals,
                   requests, results>>

\* lines 276-277: send_message is called only when api.enabled
process_send ==
    /\ pc = "send"
    /\ IF config.enabled
       THEN pc' = "send_message" /\ caller' = "process_message"
       ELSE pc' = "append" /\ caller' = caller
    /\ UNCHANGED <<mode, config, input_data, env, render, cur, msgs, messages, arrivals, rets,
                   requests, results, files, writes, log>>

\* append with insert(0, message) in place of append(message)
append_front ==
    /\ pc = "append"
    /\ messages' = <<cur>> \o messages
    /\ arrivals' = Append(arrivals, cur)
    /\ pc' = "evict"
    /\ UNCHANGED <<mode, config, input_data, env, render, caller, cur, msgs, rets, requests,
                   results, files, writes, log>>

\* line 280
append ==
    /\ pc = "append"
    /\ messages' = Append(messages, cur)
    /\ arrivals' = Append(arrivals, cur)
    /\ pc' = "evict"
    /\ UNCHANGED <<mode, config, input_data, env, render, caller, cur, msgs, rets, requests, results,
                   files, writes, log>>

\* Evicted with pop() in place of pop(0): the newest record goes
EvictedNewest(lst, max_history) ==
    IF Len(lst) > max_history THEN SubSeq(lst, 1, Len(lst) - 1) ELSE lst

\* lines 281-282: messages.pop(0) when the history is over max_history
Evicted(lst, max_history) == IF Len(lst) > max_history THEN Tail(lst) ELSE lst

\* lines 281-284
evict ==
    /\ pc = "evict"
    /\ messages' = Evicted(messages, config.max_history)
    /\ ReturnTo(cur)
    /\ UNCHANGED <<mode, config, input_data, env, render, caller, cur, msgs, arrivals, requests,
                   results, files, writes, log>>

(***************************************************************************)
(* APIClient.send_message.                                                 *)
(***************************************************************************)
\* send_message returns val; its caller stores it (lines 277 and 433)
SendReturn(val) ==
    /\ results' = [results EXCEPT ![cur] = Append(@, val)]
    /\ CASE caller = "process_message" ->
                msgs' = [msgs EXCEPT ![cur].api_sent = val] /\ pc' = "append"
         [] caller = "decrypt" ->
                msgs' = [msgs EXCEPT ![cur].api_sent = val] /\ pc' = "display"
         [] OTHER -> msgs' = msgs /\ pc' = "exit"

\* send_message without the test of api.enabled at lines 143-144
send_message_unguarded ==
    /\ pc = "send_message"
    /\ requests' = [requests EXCEPT ![cur] = Append(@, "pending")]
    /\ pc' = "post"
    /\ UNCHANGED <<mode, config, input_data, env, render, caller, cur, msgs, messages, arrivals,
                   rets, results, files, writes, log>>

\* lines 143-150: nothing is sent when api.enabled is false; otherwise one
\* session.post, which has no timeout
send_message ==
    /\ pc = "send_message"
    /\ IF ~config.enabled
       THEN SendReturn(FALSE) /\ requests' = requests
       ELSE /\ requests' = [requests EXCEPT ![cur] = Append(@, "pending")]
            /\ pc' = "post"
            /\ UNCHANGED <<msgs, results>>
    /\ UNCHANGED <<mode, config, input_data, env, render, caller, cur, messages, arrivals, rets,
                   files, writes, log>>

\* lines 151-152: a response with a non-error status
PostOk ==
    /\ SendReturn(TRUE)
    /\ UNCHANGED <<log, rets>>

\* PostFailed, had send_message no try: the exception leaves send_message and is
\* caught by its caller (process_message returns None; decrypt exits)
PostFailedRaises ==
    /\ log' = log \cup {<<"process_error", cur>>}
    /\ IF caller = "process_message" THEN ReturnTo(0) ELSE pc' = "exit" /\ rets' = rets
    /\ UNCHANGED <<msgs, results>>

\* lines 153-155: post or raise_for_status raised; logged, False returned
PostFailed ==
    /\ log' = log \cup {<<"api_error", cur>>}
    /\ SendReturn(FALSE)
    /\ UNCHANGED rets

\* the request in flight ends (it may never do so): with a non-error status, or
\* with an exception of post or raise_for_status
response ==
    /\ pc = "post"
    /\ \/ requests' = [requests EXCEPT ![cur][Len(requests[cur])] = "ok"] /\ PostOk
       \/ requests' = [requests EXCEPT ![cur][Len(requests[cur])] = "failed"] /\ PostFailed
    /\ UNCHANGED <<mode, config, input_data, env, render, caller, cur, messages, arrivals, files,
                   writes>>

(***************************************************************************)
(* MessageWatcher.on_created, run by the observer thread for one event at  *)
(* a time.                                                                 *)
(***************************************************************************)
\* Accepted without the is_directory test of lines 397-398
AcceptedAnyKind(event) == EndsWith(event.src_path, MSG_SUFFIX)

\* lines 397-399: not a directory, and the path ends with '.msg'
Accepted(event) == ~event.is_directory /\ EndsWith(event.src_path, MSG_SUFFIX)

on_created ==
    /\ mode = "monitor"
    /\ ObserverRunning
    /\ pc = "idle"
    /\ queue # <<>>
    /\ queue' = Tail(queue)
    /\ IF Accepted(Head(queue))
       THEN \E now \in Now : ProcessBegin(Head(queue).data, now)
       ELSE UNCHANGED <<clock, pc, cur, msgs, requests, results, writes>>
    /\ UNCHANGED <<mode, config, input_data, created, arrived, render, caller, messages,
                   arrivals, rets, files, log>>

(***************************************************************************)
(* WindsurfMonitor.update_display, run by the render loop of `monitor`.    *)
(***************************************************************************)
\* _generate_message_table reads messages[-10:]
render_table ==
    /\ mode = "monitor"
    /\ rpc = "table"
    /\ table' = LastN(messages, TableRows)
    /\ rpc' = "details"
    /\ UNCHANGED <<mode, config, input_data, env, ingest, details>>

\* lines 388-389: messages[-1] when the history is not empty
render_details ==
    /\ mode = "monitor"
    /\ rpc = "details"
    /\ details' = IF messages # <<>> THEN messages[Len(messages)] ELSE details
    /\ rpc' = "table"
    /\ UNCHANGED <<mode, config, input_data, env, ingest, table>>

(***************************************************************************)
(* Lines 469-471 of `monitor`: the interrupt and the shutdown.             *)
(***************************************************************************)
\* Ctrl-C while the main thread is in the render loop: the with-block is left
\* and the except branch is entered
KeyboardInterrupt ==
    /\ mode = "monitor"
    /\ rpc \in {"table", "details"}
    /\ rpc' = "stop"
    /\ UNCHANGED <<mode, config, input_data, env, ingest, table, details>>

\* line 470: observer.stop()
observer_stop ==
    /\ rpc = "stop"
    /\ rpc' = "join"
    /\ UNCHANGED <<mode, config, input_data, env, ingest, table, details>>

\* line 471: observer.join() returns once the observer thread has finished the
\* handler it was running; monitor returns and the process exits
observer_join ==
    /\ rpc = "join"
    /\ pc = "idle"
    /\ rpc' = "exit"
    /\ UNCHANGED <<mode, config, input_data, env, ingest, table, details>>

(***************************************************************************)
(* The `decrypt` command: on the contents of a file (--file) or on the     *)
(* text of its argument.                                                   *)
(***************************************************************************)
\* lines 424-426 and 430: process_message on the bytes read from the file
decrypt_file(data, now) ==
    /\ input_data' = Bytes(data)
    /\ ProcessBegin(data, now)
    /\ UNCHANGED <<rets, log>>

\* lines 428 and 430: process_message on the argument itself, a str
decrypt_text(text, now) ==
    /\ input_data' = Text(text)
    /\ IF NormalizedOf[text].ok
       THEN ProcessBegin(NormalizedOf[text].bytes, now) /\ UNCHANGED <<rets, log>>
       ELSE ProcessAborted(now)

decrypt ==
    /\ mode = "decrypt"
    /\ pc = "idle"
    /\ \E now \in Now :
          \/ \E data \in Payloads : decrypt_file(data, now)
          \/ \E text \in TextInputs : decrypt_text(text, now)
    /\ UNCHANGED <<mode, config, queue, created, arrived, render, caller, messages,
                   arrivals, files>>

\* lines 431-433: the message process_message returned is sent again
decrypt_send ==
    /\ pc = "d_resend"
    /\ IF rets[Len(rets)] # 0
       THEN IF config.enabled
            THEN pc' = "send_message" /\ caller' = "decrypt"
            ELSE pc' = "display" /\ caller' = caller
       ELSE pc' = "exit" /\ caller' = caller
    /\ UNCHANGED <<mode, config, input_data, env, render, cur, msgs, messages, arrivals, rets,
                   requests, results, files, writes, log>>

\* line 435
display ==
    /\ pc = "display"
    /\ pc' = "exit"
    /\ UNCHANGED <<mode, config, input_data, env, render, caller, cur, msgs, messages, arrivals,
                   rets, requests, results, files, writes, log>>

(***************************************************************************)
(* Specifications.                                                         *)
(***************************************************************************)
Next ==
    \/ \E event \in Events : CreateFile(event)
    \/ on_created
    \/ decrypt
    \/ _save_message
    \/ process_send
    \/ send_message
    \/ response
    \/ append
    \/ evict
    \/ decrypt_send
    \/ display
    \/ render_table
    \/ render_details

\* the program while nobody interrupts it
Spec == Init /\ [][Next]_vars

\* the steps the program takes by itself; the environment's (CreateFile,
\* response) are not forced
ProgramStep ==
    \/ on_created
    \/ decrypt
    \/ _save_message
    \/ process_send
    \/ send_message
    \/ append
    \/ evict
    \/ decrypt_send
    \/ display

\* both threads keep running: the thread of process_message and the render loop
LiveSpec ==
    /\ Init
    /\ [][Next]_vars
    /\ WF_vars(ProgramStep)
    /\ WF_vars(render_table \/ render_details)

\* APIClient.send_message called on a message, in any configuration
InitSend ==
    /\ config \in Configs
    /\ input_data = NoInput
    /\ clock \in 0..MaxClock
    /\ queue = <<>>
    /\ created = 0
    /\ arrived = <<>>
    /\ messages = <<>>
    /\ arrivals = <<>>
    /\ rets = <<>>
    /\ files = EmptyDict
    /\ writes = <<"none">>
    /\ log = {}
    /\ rpc = "table"
    /\ table = <<>>
    /\ details = 0
    /\ mode = "send_message"
    /\ pc = "send_message"
    /\ caller = "direct"
    /\ cur = 1
    /\ \E data \in Payloads : msgs = <<WindsurfMessage(data, clock)>>
    /\ requests = <<<<>>>>
    /\ results = <<<<>>>>

\* the program, or send_message called on its own
SpecSend == (Init \/ InitSend) /\ [][Next]_vars

\* the program, `monitor` interrupted at any moment of its render loop
NextInterrupt ==
    \/ Next
    \/ KeyboardInterrupt
    \/ observer_stop
    \/ observer_join

SpecInterrupt == Init /\ [][NextInterrupt]_vars

(***************************************************************************)
(* Properties.                                                             *)
(***************************************************************************)
\* the messages built and parsed so far
Records == DOMAIN msgs

\* process_message has returned for message r (calls run one after another, and
\* a call that builds no message is the only call of its run, so the r-th
\* return value belongs to the r-th message)
Returned(r) == r <= Len(rets)

\* message r was appended to the history at some point
Appended(r) == \E i \in DOMAIN arrivals : arrivals[i] = r

\* _save_message has run for message r
Saved(r) == r < cur \/ (r = cur /\ pc # "save")

\* C1: whenever no process_message call is between its append and its eviction,
\* the history is exactly the last max_history appended records, in the order
\* they were appended (so it holds at most max_history records).
C1_HistoryIsLastAppended ==
    pc # "evict" =>
        /\ messages = LastN(arrivals, config.max_history)
        /\ Len(messages) <= config.max_history

\* more records were appended than the history keeps, and the history is full
C1_Witness ==
    /\ pc # "evict"
    /\ Len(arrivals) > config.max_history
    /\ Len(messages) = config.max_history

\* C2: the dashboard never reads a history longer than max_history.
C2_ReaderNeverSeesOverfull == Len(table) <= config.max_history

\* C3: with api.enabled false no request is ever issued, every send_message call
\* returns False, and no message has api_sent set.
C3_DisabledNeverSends ==
    ~config.enabled =>
        /\ pc # "post"
        /\ \A r \in Records :
              /\ requests[r] = <<>>
              /\ ~msgs[r].api_sent
              /\ \A i \in DOMAIN results[r] : ~results[r][i]

\* send_message was called with api.enabled false and has returned False
C3_Witness ==
    /\ ~config.enabled
    /\ mode = "send_message"
    /\ pc = "exit"
    /\ results[1] = <<FALSE>>
    /\ requests[1] = <<>>

\* C4: no message has more than one request, an ingested message has exactly one
\* when forwarding is enabled, and once send_message has returned True for a
\* message no later value is stored in its api_sent.
C4_OneRequestPerRecord ==
    \A r \in Records :
        /\ Len(requests[r]) <= 1
        /\ (config.enabled /\ Returned(r) /\ rets[r] = r => Len(requests[r]) = 1)
        /\ \A i, j \in DOMAIN results[r] : i < j => ~results[r][i]

\* C5: in the monitor, a request process_message is waiting on always leads to
\* the message being appended, whether or not the endpoint answers.
C5_IngestionCompletes ==
    (mode = "monitor" /\ pc = "post") ~> (pc = "append")

\* C6: with save_to_disk on and no write error, there are as many files as saved
\* messages, and each saved message's file holds that message.
C6_OneFilePerRecord ==
    (config.save_to_disk /\ \A r \in Records : writes[r] # "failed") =>
        /\ Cardinality(DOMAIN files) = Cardinality({r \in Records : Saved(r)})
        /\ \A r \in Records :
              Saved(r) =>
                  /\ FileName(msgs[r].timestamp) \in DOMAIN files
                  /\ files[FileName(msgs[r].timestamp)] = to_dict(msgs[r])

\* C7: a message whose file could not be written has the failure logged and is
\* still processed to the end: once process_message has returned, it returned the message, the message was
\* appended to the history, and a request was issued for it when forwarding is
\* enabled.
C7_SaveFailureContinues ==
    \A r \in Records :
        writes[r] = "failed" =>
            /\ <<"save_error", r>> \in log
            /\ (Returned(r) =>
                   /\ rets[r] = r
                   /\ Appended(r)
                   /\ (config.enabled => Len(requests[r]) >= 1))

\* a write failed, forwarding is enabled, and process_message has returned
C7_Witness ==
    \E r \in Records :
        /\ writes[r] = "failed"
        /\ Returned(r)
        /\ config.enabled
        /\ Appended(r)

C10_EmptyMessageHasNoFields ==
    \A r \in Records :
        msgs[r].raw_data = <<>> =>
            /\ msgs[r].hex_dump = <<>>
            /\ DOMAIN msgs[r].parsed_data = {}

\* C11: whatever text `decrypt` passes to process_message, its conversion to
\* bytes yields a byte string, and the call returns a message that was appended
\* to the history, never None.
C11_NormalizationIsTotal ==
    input_data.kind = "str" =>
        /\ NormalizedOf[input_data.value].ok
        /\ (rets # <<>> => rets[1] # 0 /\ Appended(rets[1]))

\* C12: when a message's text holds 'R$' and, after it, the marker 'windsurf' in
\* any letter case, machine_id is the stripped text strictly between the 'R$'
\* and that occurrence of the marker.
C12_MachineIdAnyCase ==
    \A r \in Records :
        LET message == Decode(msgs[r].raw_data)
            after == Drop(message, Find(message, R_DOLLAR) + Len(R_DOLLAR))
        IN (Contains(message, R_DOLLAR) /\ Contains(Lower(after), WINDSURF)) =>
               /\ "machine_id" \in DOMAIN msgs[r].parsed_data
               /\ msgs[r].parsed_data["machine_id"] =
                      Strip(SubSeq(after, 1, Find(Lower(after), WINDSURF) - 1))

\* the contents of the records a sequence of message indices names
DataOf(indices) == [i \in DOMAIN indices |-> msgs[indices[i]].raw_data]

\* C13: in the monitor at most one process_message call is in progress, the
\* records appended so far are the first '.msg' files created, in creation order
\* and with none skipped, and once every event is dispatched and ingested the
\* history holds the last max_history of the files created, in creation order.
C13_OneAtATimeInArrivalOrder ==
    mode = "monitor" =>
        /\ Len(msgs) - Len(rets) = (IF pc = "idle" THEN 0 ELSE 1)
        /\ Len(arrivals) <= Len(arrived)
        /\ DataOf(arrivals) = SubSeq(arrived, 1, Len(arrivals))
        /\ \A i \in DOMAIN rets : rets[i] = i
        /\ (queue = <<>> /\ pc = "idle" =>
               /\ Len(arrivals) = Len(arrived)
               /\ DataOf(messages) = LastN(arrived, config.max_history))

\* two '.msg' files with different contents were created and ingested, and the
\* history holds both, the first created first
C13_Witness ==
    /\ mode = "monitor"
    /\ queue = <<>>
    /\ pc = "idle"
    /\ Len(arrived) = 2
    /\ arrived[1] # arrived[2]
    /\ Len(messages) = 2
    /\ DataOf(messages) = arrived

\* C14: after an interrupt the process exits only with the observer stopped and
\* its thread finished (no handler in progress), and once the render loop has
\* ended no creation event is handed to process_message any more.
C14_ShutdownTogether ==
    [][/\ (rpc' = "exit" => ~ObserverRunning' /\ pc' = "idle")
       /\ (RenderLoopEnded => Len(msgs') = Len(msgs))]_vars

====
